---- MODULE Spec2Model ----
(***************************************************************************)
(* CoreClientProvider of arduino-ide-extension: the gRPC client (Session)  *)
(* of the Arduino CLI daemon, its reconciliation against the daemon port,  *)
(* the init handshake and the two index updates with their retry loops.    *)
(*                                                                         *)
(* reconcileClient is an async method: every `await` is a point where the  *)
(* method is suspended, so one action of the model is the code that runs   *)
(* from one suspension point to the next.  The base class                  *)
(* GrpcClientProvider (grpc-client-provider.ts) is not part of the source  *)
(* tree at hand; its reconcileClient is modelled from the specification    *)
(* (the super* definitions).                                               *)
(***************************************************************************)
EXTENDS Naturals, Sequences, FiniteSets

\* ---- bounds of the model ------------------------------------------------
MaxInFlight == 2      \* reconcileClient invocations that may be suspended at once
MaxPorts == 2         \* distinct daemon ports the endpoint source signals
MaxConns == 2         \* gRPC clients constructed over one behaviour
MaxStreamErrors == 1  \* index stream errors while reconciliations overlap or data streams
MaxInitMsgs == 2      \* InitResp messages on one init stream
MaxEvents == 2        \* data events on the two index streams of the daemon's script

\* ---- program constants --------------------------------------------------
PkgAttempts == 10     \* for (let i = 0; i < 10; i++), package index
LibAttempts == 10     \* for (let i = 0; i < 10; i++), library index

Absent == 0           \* port: string | undefined -- the undefined port
Ports == 1..MaxPorts
Slots == 1..MaxInFlight

VARIABLES
    _port,    \* GrpcClientProvider._port: the endpoint recorded last
    _client,  \* GrpcClientProvider._client: the current Session or NoClient
    conns,    \* every ArduinoCoreClient constructed so far, by identity
    call,     \* the reconcileClient invocations, one record per slot
    overlap,  \* whether the endpoint source signals during a reconciliation
    errs,     \* index stream errors delivered so far (counted when budgeted)
    script,   \* the data events the daemon delivers on each index stream
    prev      \* the invocation record a slot held before its current one

vars == <<_port, _client, conns, call, overlap, errs, script, prev>>

\* ---- progress events -------------------------------------------------------

\* progress.getFile(): the names a progress event can carry, as characters
FileNames == << <<"a">>, <<"b", " ", "c">> >>

Files == DOMAIN FileNames

NoFile == 0           \* file === undefined, or getFile() === ''

\* UpdateIndexResp / UpdateLibrariesIndexResp: getDownloadProgress() may be
\* undefined; a progress carries a file (or none) and the completed flag
DataEvents ==
    {[progress |-> FALSE, file |-> NoFile, completed |-> FALSE]}
    \cup [progress : {TRUE}, file : Files \cup {NoFile}, completed : BOOLEAN]

EventSeqs == UNION {[1..n -> DataEvents] : n \in 0..MaxEvents}

EmptyScript == [pkg |-> <<>>, lib |-> <<>>]

\* what the daemon streams on every updateIndex / updateLibrariesIndex call
Scripts ==
    {sc \in [pkg : EventSeqs, lib : EventSeqs] : Len(sc.pkg) + Len(sc.lib) <= MaxEvents}

\* the daemon streams data events; stream errors are then budgeted
Scripted == script # EmptyScript

\* /\s/.test(file)
HasWhitespace(f) == \E j \in DOMAIN FileNames[f] : FileNames[f][j] = " "

\* CoreClientProvider.Client: { client, instance }; client is an index of conns
NoClient == [client |-> 0, instance |-> 0]

Session(c, inst) == [client |-> c, instance |-> inst]

\* one entry of an invocation's history: a connection operation, an RPC
\* issued, a line appended to the tool output sink, or a notification fired
Ev(op, kind, n) == [op |-> op, kind |-> kind, n |-> n]

IdleCall ==
    [pc |-> "idle", port |-> Absent, path |-> "none",
     client |-> 0, instance |-> 0, resp |-> "none", ending |-> "none",
     sawInstance |-> FALSE, i |-> 0, file |-> NoFile, pos |-> 0,
     indexUpdateSucceeded |-> TRUE, libIndexUpdateSucceeded |-> TRUE,
     hist |-> <<>>, failure |-> "none",
     pre |-> NoClient, prePort |-> Absent]

Suspended(k) == call[k].pc \in {"init", "pkg", "lib", "ret", "fire"}

InFlight == {k \in Slots : Suspended(k)}

\* the invocation record a new call gets: the lowest slot that is not suspended
FreeSlot == CHOOSE k \in Slots : ~Suspended(k) /\ \A j \in Slots : j < k => Suspended(j)

Live == {c \in 1..Len(conns) : conns[c].closes = 0}

\* ---- the init handshake (createClient) ----------------------------------

\* the streams client.init can deliver: each message says whether it carries
\* an instance; the stream then ends or errors
InitStreams == UNION {[1..n -> BOOLEAN] : n \in 0..MaxInitMsgs}

\* stream.on('data', data => resp = data): the response retained at the end
RetainedResp(stream) ==
    IF stream = <<>> THEN "undefined"
    ELSE IF stream[Len(stream)] THEN "instance" ELSE "noInstance"

\* whether some message of the stream carried an instance
SawInstance(stream) == \E j \in DOMAIN stream : stream[j]

\* what awaiting the init promise and reading initResp.getInstance() yields
InitOutcome(stream, ending) ==
    IF ending = "error" THEN "StreamError"
    ELSE IF RetainedResp(stream) = "undefined" THEN "TypeError"
    ELSE IF RetainedResp(stream) = "noInstance" THEN "InitializationError"
    ELSE "ok"

\* ---- close ---------------------------------------------------------------

\* a close that releases nothing
closeNothing(cs, client) == cs

\* close(client): client.client.close()
close(cs, client) == [cs EXCEPT ![client.client].closes = @ + 1]

\* ---- updateIndexes --------------------------------------------------------

toolOutputServiceAppend(c, kind, n) ==
    [c EXCEPT !.hist = Append(@, Ev("append", kind, n))]

\* an update call that goes on with the file name the last call tracked
IssueUpdateKeepsFile(c, rpc) ==
    [c EXCEPT !.hist = Append(@, Ev("call", rpc, c.client)), !.pos = 0]

\* updateIndex / updateLibraryIndex issue their streaming request; `let file`
\* is a fresh local of the call; pos counts the data events of this stream
IssueUpdate(c, rpc) ==
    [c EXCEPT !.hist = Append(@, Ev("call", rpc, c.client)),
              !.file = NoFile, !.pos = 0]

\* how a data event shows in the history
DataKind(ev) ==
    IF ~ev.progress THEN "noProgress"
    ELSE IF ev.completed THEN "completed" ELSE "progress"

\* a data callback that tracks the latest file name instead of the first
onDataLatestFile(c, ev, named, spaced, generic) ==
    LET c0 == [c EXCEPT !.pos = @ + 1,
                        !.hist = Append(@, Ev("data", DataKind(ev), ev.file))]
        f == IF ev.file # NoFile THEN ev.file ELSE c.file
    IN IF ~ev.progress THEN c0
       ELSE IF ~ev.completed THEN [c0 EXCEPT !.file = f]
       ELSE [(IF f # NoFile
              THEN IF HasWhitespace(f)
                   THEN toolOutputServiceAppend(c0, spaced, f)
                   ELSE toolOutputServiceAppend(c0, named, f)
              ELSE toolOutputServiceAppend(c0, generic, 0))
             EXCEPT !.file = NoFile]

\* a data callback that forgets the tracked file name: always the generic line
onDataAlwaysGeneric(c, ev, named, spaced, generic) ==
    LET c0 == [c EXCEPT !.pos = @ + 1,
                        !.hist = Append(@, Ev("data", DataKind(ev), ev.file))]
    IN IF ev.progress /\ ev.completed
       THEN toolOutputServiceAppend(c0, generic, 0)
       ELSE c0

\* the data callback of updateIndex / updateLibraryIndex; named, spaced and
\* generic are the three sink lines of the callback
onData(c, ev, named, spaced, generic) ==
    LET c0 == [c EXCEPT !.pos = @ + 1,
                        !.hist = Append(@, Ev("data", DataKind(ev), ev.file))]
        f == IF c.file = NoFile /\ ev.file # NoFile THEN ev.file ELSE c.file
    IN IF ~ev.progress THEN c0
       ELSE IF ~ev.completed THEN [c0 EXCEPT !.file = f]
       ELSE [(IF f # NoFile
              THEN IF HasWhitespace(f)
                   THEN toolOutputServiceAppend(c0, spaced, f)
                   ELSE toolOutputServiceAppend(c0, named, f)
              ELSE toolOutputServiceAppend(c0, generic, 0))
             EXCEPT !.file = NoFile]

\* updateResp.on('data', ...) of updateIndex
updateIndexOnData(c, ev) ==
    onData(c, ev, "downloadPkg", "completedPkg", "updatedPkg")

\* resp.on('data', ...) of updateLibraryIndex
updateLibraryIndexOnData(c, ev) ==
    onData(c, ev, "downloadLib", "completedLib", "updatedLib")

\* an updateIndexes that synchronizes the library index first
StartUpdateIndexesLibraryFirst(c) ==
    IssueUpdate([c EXCEPT !.pc = "lib", !.i = 0, !.indexUpdateSucceeded = TRUE,
                          !.libIndexUpdateSucceeded = TRUE],
                "updateLibraryIndex")

\* updateIndexes entered: indexUpdateSucceeded = true, i = 0, first updateIndex
StartUpdateIndexes(c) ==
    IssueUpdate([c EXCEPT !.pc = "pkg", !.i = 0, !.indexUpdateSucceeded = TRUE],
                "updateIndex")

\* a library loop that goes on counting where the package loop stopped
StartLibraryLoopSharedCounter(c) ==
    LET c1 == IF ~c.indexUpdateSucceeded
              THEN toolOutputServiceAppend(c, "unablePkg", 0) ELSE c
    IN IF c1.i < LibAttempts
       THEN IssueUpdate([c1 EXCEPT !.pc = "lib", !.libIndexUpdateSucceeded = TRUE],
                        "updateLibraryIndex")
       ELSE [c1 EXCEPT !.pc = IF c.path = "reuse" THEN "fire" ELSE "ret",
                       !.libIndexUpdateSucceeded = TRUE]

\* the package loop is left: the terminal line, then the library loop begins
StartLibraryLoop(c) ==
    LET c1 == IF ~c.indexUpdateSucceeded
              THEN toolOutputServiceAppend(c, "unablePkg", 0) ELSE c
    IN IssueUpdate([c1 EXCEPT !.pc = "lib", !.i = 0,
                              !.libIndexUpdateSucceeded = TRUE],
                   "updateLibraryIndex")

\* a package loop without the break: it goes on after a successful attempt
PkgSettledNoBreak(c, ok) ==
    LET c1 == IF ok THEN [c EXCEPT !.indexUpdateSucceeded = TRUE]
                    ELSE toolOutputServiceAppend(c, "errPkg", c.i)
    IN IF c.i + 1 < PkgAttempts
       THEN IssueUpdate([c1 EXCEPT !.i = c.i + 1], "updateIndex")
       ELSE StartLibraryLoop([c1 EXCEPT !.i = c.i + 1])

\* a package loop without the try/catch: a stream error rejects updateIndexes
PkgSettledThrows(c, ok) ==
    IF ok
    THEN StartLibraryLoop([c EXCEPT !.indexUpdateSucceeded = TRUE])
    ELSE [c EXCEPT !.pc = "failed", !.failure = "StreamError"]

\* the awaited updateIndex settled: success breaks, an error is reported and
\* the loop goes on while i < 10
PkgSettled(c, ok) ==
    IF ok
    THEN StartLibraryLoop([c EXCEPT !.indexUpdateSucceeded = TRUE])
    ELSE LET c1 == toolOutputServiceAppend(c, "errPkg", c.i)
         IN IF c.i + 1 < PkgAttempts
            THEN IssueUpdate([c1 EXCEPT !.i = c.i + 1], "updateIndex")
            ELSE StartLibraryLoop([c1 EXCEPT !.i = c.i + 1])

\* an updateIndexes that fires onIndexUpdated twice
FinishUpdateIndexesFiresTwice(c) ==
    LET c1 == IF ~c.libIndexUpdateSucceeded
              THEN toolOutputServiceAppend(c, "unableLib", 0) ELSE c
        c2 == IF c1.indexUpdateSucceeded /\ c1.libIndexUpdateSucceeded
              THEN [c1 EXCEPT !.hist = @ \o <<Ev("fire", "indexUpdated", 0),
                                              Ev("fire", "indexUpdated", 0)>>]
              ELSE c1
    IN [c2 EXCEPT !.pc = IF c.path = "reuse" THEN "fire" ELSE "ret"]

\* the library loop is left: the terminal line, onIndexUpdatedEmitter.fire()
\* when both flags hold, and updateIndexes returns to the code that awaits it
FinishUpdateIndexes(c) ==
    LET c1 == IF ~c.libIndexUpdateSucceeded
              THEN toolOutputServiceAppend(c, "unableLib", 0) ELSE c
        c2 == IF c1.indexUpdateSucceeded /\ c1.libIndexUpdateSucceeded
              THEN [c1 EXCEPT !.hist = Append(@, Ev("fire", "indexUpdated", 0))]
              ELSE c1
    IN [c2 EXCEPT !.pc = IF c.path = "reuse" THEN "fire" ELSE "ret"]

LibSettled(c, ok) ==
    IF ok
    THEN FinishUpdateIndexes([c EXCEPT !.libIndexUpdateSucceeded = TRUE])
    ELSE LET c1 == toolOutputServiceAppend(c, "errLib", c.i)
         IN IF c.i + 1 < LibAttempts
            THEN IssueUpdate([c1 EXCEPT !.i = c.i + 1], "updateLibraryIndex")
            ELSE FinishUpdateIndexes([c1 EXCEPT !.i = c.i + 1])

\* ---- createClient ---------------------------------------------------------

\* new ArduinoCoreClient(`localhost:${port}`, ...): a fresh open connection;
\* held records whether it has ever been the current Session's connection
NewConn(port) == [endpoint |-> port, closes |-> 0, held |-> FALSE]

\* createClient up to its first await: the client is constructed and the init
\* request is issued on it
createClientBegin(c, id) ==
    [c EXCEPT !.pc = "init", !.path = "create", !.client = id,
              !.hist = @ \o <<Ev("open", "conn", id), Ev("call", "init", id)>>]

\* a createClient without the instance check
createClientResumeUnchecked(c, stream, ending) ==
    IF ending = "error"
    THEN [c EXCEPT !.resp = RetainedResp(stream), !.ending = ending,
                   !.pc = "throw", !.failure = "StreamError"]
    ELSE StartUpdateIndexes([c EXCEPT !.resp = RetainedResp(stream),
                                      !.ending = ending, !.instance = c.client])

\* createClient after the init promise settled: the instance check, then
\* updateIndexes({ instance, client }); a rejection leaves createClient
createClientResume(c, stream, ending) ==
    LET c1 == [c EXCEPT !.resp = RetainedResp(stream), !.ending = ending,
                        !.sawInstance = SawInstance(stream)]
    IN IF InitOutcome(stream, ending) = "ok"
       THEN StartUpdateIndexes([c1 EXCEPT !.instance = c.client])
       ELSE [c1 EXCEPT !.pc = "throw", !.failure = InitOutcome(stream, ending)]

\* ---- GrpcClientProvider.reconcileClient (the base class) ------------------

\* the recorded endpoint is replaced and the current Session is retired
superRetire(c) ==
    IF _client # NoClient
    THEN [c EXCEPT !.hist = Append(@, Ev("close", "conn", _client.client))]
    ELSE c

\* a rejected createClient is not caught: the rejection reaches the caller of
\* reconcileClient, and the statements after the await are skipped
superCreateRejected(c) == [c EXCEPT !.pc = "failed"]

\* ---- reconcileClient ------------------------------------------------------

\* a reconcileClient that never takes the endpoint for unchanged
ReuseBranchNever(port) == FALSE

\* if (port && port === this._port)
ReuseBranch(port) == port # Absent /\ port = _port

NewCall(port) == [IdleCall EXCEPT !.port = port, !.pre = _client, !.prePort = _port]

\* the branch of reconcileClient that does not call the base class
reconcileKept(port) ==
    IF _client # NoClient
    THEN StartUpdateIndexes([NewCall(port) EXCEPT !.path = "reuse",
                                                  !.client = _client.client,
                                                  !.instance = _client.instance])
    ELSE [NewCall(port) EXCEPT !.path = "noop", !.pc = "done"]

\* super.reconcileClient(port) up to its first await: the endpoint is
\* recorded, the current Session is retired, and for a known port createClient
\* is entered; for an absent port the method returns with no Session
superReconcileClient(k, port) ==
    /\ port # Absent => Len(conns) < MaxConns
    /\ _port' = port
    /\ _client' = NoClient
    /\ LET retired == IF _client # NoClient THEN close(conns, _client) ELSE conns
       IN IF port # Absent
          THEN /\ conns' = Append(retired, NewConn(port))
               /\ call' = [call EXCEPT ![k] =
                     createClientBegin(superRetire(NewCall(port)), Len(conns) + 1)]
          ELSE /\ conns' = retired
               /\ call' = [call EXCEPT ![k] =
                     [superRetire(NewCall(port)) EXCEPT !.pc = "fire",
                                                        !.path = "absent"]]

\* reconcileClient(port) is invoked and runs to its first suspension
reconcileClient(k, port) ==
    /\ InFlight # Slots
    /\ k = FreeSlot
    /\ overlap \/ InFlight = {}
    /\ IF ReuseBranch(port)
       THEN /\ call' = [call EXCEPT ![k] = reconcileKept(port)]
            /\ UNCHANGED <<_port, _client, conns>>
       ELSE superReconcileClient(k, port)
    /\ prev' = IF Scripted THEN [prev EXCEPT ![k] = call[k]] ELSE prev
    /\ UNCHANGED <<overlap, errs, script>>

\* the init stream of invocation k ends or errors
initSettled(k, stream, ending) ==
    /\ call[k].pc = "init"
    /\ LET c == createClientResume(call[k], stream, ending)
       IN call' = [call EXCEPT ![k] =
                      IF c.pc = "throw" THEN superCreateRejected(c) ELSE c]
    /\ UNCHANGED <<_port, _client, conns, overlap, errs, script, prev>>

\* index stream errors are budgeted when invocations overlap or data streams
Budgeted == overlap \/ Scripted

\* the update-index stream of invocation k delivers its next data event
updateIndexData(k) ==
    /\ call[k].pc = "pkg"
    /\ call[k].pos < Len(script.pkg)
    /\ call' = [call EXCEPT ![k] =
                   updateIndexOnData(call[k], script.pkg[call[k].pos + 1])]
    /\ UNCHANGED <<_port, _client, conns, overlap, errs, script, prev>>

\* the update-libraries-index stream of invocation k delivers its next event
updateLibraryIndexData(k) ==
    /\ call[k].pc = "lib"
    /\ call[k].pos < Len(script.lib)
    /\ call' = [call EXCEPT ![k] =
                   updateLibraryIndexOnData(call[k], script.lib[call[k].pos + 1])]
    /\ UNCHANGED <<_port, _client, conns, overlap, errs, script, prev>>

\* the update-index stream of invocation k ends (ok, after its last data
\* event) or errors (at any point)
updateIndexSettled(k, ok) ==
    /\ call[k].pc = "pkg"
    /\ ok => call[k].pos = Len(script.pkg)
    /\ (~ok /\ Budgeted) => errs < MaxStreamErrors
    /\ call' = [call EXCEPT ![k] = PkgSettled(call[k], ok)]
    /\ errs' = IF ~ok /\ Budgeted THEN errs + 1 ELSE errs
    /\ UNCHANGED <<_port, _client, conns, overlap, script, prev>>

\* the update-libraries-index stream of invocation k ends (ok) or errors
updateLibraryIndexSettled(k, ok) ==
    /\ call[k].pc = "lib"
    /\ ok => call[k].pos = Len(script.lib)
    /\ (~ok /\ Budgeted) => errs < MaxStreamErrors
    /\ call' = [call EXCEPT ![k] = LibSettled(call[k], ok)]
    /\ errs' = IF ~ok /\ Budgeted THEN errs + 1 ELSE errs
    /\ UNCHANGED <<_port, _client, conns, overlap, script, prev>>

\* the base class resumes after createClient: this._client = client
superAssign(k) ==
    /\ call[k].pc = "ret"
    /\ _client' = Session(call[k].client, call[k].instance)
    /\ conns' = [conns EXCEPT ![call[k].client].held = TRUE]
    /\ call' = [call EXCEPT ![k].pc = "fire"]
    /\ UNCHANGED <<_port, overlap, errs, script, prev>>

\* reconcileClient resumes after its await: this.onClientReadyEmitter.fire()
fireClientReady(k) ==
    /\ call[k].pc = "fire"
    /\ call' = [call EXCEPT ![k].pc = "done",
                            ![k].hist = Append(@, Ev("fire", "clientReady", 0))]
    /\ UNCHANGED <<_port, _client, conns, overlap, errs, script, prev>>

\* ---- specifications -------------------------------------------------------

InitCommon ==
    /\ _port = Absent
    /\ _client = NoClient
    /\ conns = <<>>
    /\ call = [k \in Slots |-> IdleCall]
    /\ prev = [k \in Slots |-> IdleCall]
    /\ errs = 0

\* the endpoint source signals at any time, also during a reconciliation;
\* the index streams carry no data event
Init == InitCommon /\ overlap = TRUE /\ script = EmptyScript

\* the endpoint source signals only when no reconciliation is suspended;
\* the index streams carry no data event
InitSeq == InitCommon /\ overlap = FALSE /\ script = EmptyScript

\* as InitSeq, with a daemon that streams data events on the index streams
InitEv == InitCommon /\ overlap = FALSE /\ script \in Scripts \ {EmptyScript}

Next ==
    \E k \in Slots :
        \/ \E port \in Ports \cup {Absent} : reconcileClient(k, port)
        \/ \E stream \in InitStreams, ending \in {"end", "error"} :
              initSettled(k, stream, ending)
        \/ \E ok \in BOOLEAN : updateIndexSettled(k, ok)
        \/ \E ok \in BOOLEAN : updateLibraryIndexSettled(k, ok)
        \/ superAssign(k)
        \/ fireClientReady(k)

Spec == Init /\ [][Next]_vars

SpecSeq == InitSeq /\ [][Next]_vars

NextEv ==
    \/ Next
    \/ \E k \in Slots :
          \/ updateIndexData(k)
          \/ updateLibraryIndexData(k)

SpecEv == InitEv /\ [][NextEv]_vars

\* ---- reading an invocation's history --------------------------------------

Idx(h, op, kind) == {j \in DOMAIN h : h[j].op = op /\ h[j].kind = kind}

Count(h, op, kind) == Cardinality(Idx(h, op, kind))

Ops(h, op) == {j \in DOMAIN h : h[j].op = op}

Started(k) == call[k].pc # "idle"

Returned(k) == call[k].pc = "done"

\* the endpoint the invocation found the current Session bound to
PreEndpoint(k) ==
    IF call[k].pre = NoClient THEN Absent ELSE conns[call[k].pre.client].endpoint

\* invocation k ran updateIndexes and has left the package / the library loop
PkgLoopLeft(k) ==
    call[k].path \in {"reuse", "create"} /\ call[k].pc \in {"lib", "ret", "fire", "done"}

LibLoopLeft(k) ==
    call[k].path \in {"reuse", "create"} /\ call[k].pc \in {"ret", "fire", "done"}

PkgFailures(k) == Count(call[k].hist, "append", "errPkg")

LibFailures(k) == Count(call[k].hist, "append", "errLib")

\* ---- C1 -------------------------------------------------------------------

C1_Applies(k) ==
    Started(k) /\ call[k].pre # NoClient /\ call[k].port = PreEndpoint(k)

\* C1: a reconcileClient(p) invoked while a current Session exists whose
\* endpoint is p opens no connection and closes none, leaves the Session as it
\* was, runs updateIndex and updateLibraryIndex on that Session's client and
\* instance, and fires "client ready" once, as its last step, after both.
C1_ReuseKeepsSessionAndSyncs ==
    \A k \in Slots : C1_Applies(k) =>
        LET h == call[k].hist IN
        /\ Ops(h, "open") = {} /\ Ops(h, "close") = {}
        /\ _client = call[k].pre
        /\ conns[call[k].pre.client].closes = 0
        /\ call[k].pc \in {"pkg", "lib", "fire", "done"}
        /\ call[k].client = call[k].pre.client
        /\ call[k].instance = call[k].pre.instance
        /\ \A j \in Ops(h, "call") : h[j].n = call[k].pre.client
        /\ Count(h, "call", "updateIndex") >= 1
        /\ call[k].pc \in {"fire", "done"} =>
              Count(h, "call", "updateLibraryIndex") >= 1
        /\ Count(h, "fire", "clientReady") = IF call[k].pc = "done" THEN 1 ELSE 0
        /\ call[k].pc = "done" => h[Len(h)] = Ev("fire", "clientReady", 0)

\* a reconciliation of an unchanged endpoint has returned after a failed and
\* a successful package attempt
C1_Witness ==
    \E k \in Slots : C1_Applies(k) /\ Returned(k) /\ PkgFailures(k) = 1

\* ---- C2 -------------------------------------------------------------------

C2_Applies(k) ==
    Started(k) /\ call[k].pre # NoClient /\ call[k].port # PreEndpoint(k)

\* C2: a reconcileClient(p) invoked while the current Session is bound to
\* another endpoint than p closes that Session's connection exactly once, and
\* before it opens the connection to p; no connection is ever closed twice,
\* and a connection that was the current Session's and no longer is, is closed.
C2_OldConnectionClosedOnceBeforeOpen ==
    /\ \A k \in Slots : C2_Applies(k) =>
          LET h == call[k].hist IN
          /\ Cardinality(Ops(h, "close")) = 1
          /\ \A j \in Ops(h, "close") : h[j].n = call[k].pre.client
          /\ conns[call[k].pre.client].closes = 1
          /\ \A j \in Ops(h, "close"), o \in Ops(h, "open") : j < o
          /\ call[k].port # Absent => Cardinality(Ops(h, "open")) = 1
    /\ \A c \in DOMAIN conns :
          /\ conns[c].closes <= 1
          /\ (conns[c].held /\ _client.client # c) => conns[c].closes = 1

\* a reconciliation replaced a Session by one on another port and returned
C2_Witness ==
    \E k \in Slots :
        /\ C2_Applies(k) /\ Returned(k) /\ call[k].port # Absent
        /\ _client = Session(call[k].client, call[k].instance)
        /\ _client.client # call[k].pre.client

\* ---- C3 -------------------------------------------------------------------

\* C3: a reconcileClient(p) with a known p, invoked while there is no current
\* Session, takes the handshake-and-create path: it opens a connection and
\* issues the init request, whatever endpoint was recorded before.
C3_NoSessionAlwaysCreates ==
    \A k \in Slots :
        (Started(k) /\ call[k].pre = NoClient /\ call[k].port # Absent) =>
            /\ call[k].path = "create"
            /\ Count(call[k].hist, "open", "conn") = 1
            /\ Count(call[k].hist, "call", "init") = 1

\* ---- C4 -------------------------------------------------------------------

\* C4: a reconcileClient invocation that has returned fired "client ready"
\* exactly once, as the last thing it did; one that is still suspended has
\* not fired it yet.
C4_ClientReadyOncePerReconcile ==
    \A k \in Slots :
        LET h == call[k].hist IN
        /\ Returned(k) =>
              /\ Count(h, "fire", "clientReady") = 1
              /\ h[Len(h)] = Ev("fire", "clientReady", 0)
        /\ Suspended(k) => Count(h, "fire", "clientReady") = 0

\* ---- C5 -------------------------------------------------------------------

C5_Applies(k) ==
    call[k].ending = "end" /\ call[k].resp \in {"undefined", "noInstance"}

PkgSucceeded(k) == Count(call[k].hist, "call", "updateIndex") > PkgFailures(k)

LibSucceeded(k) == Count(call[k].hist, "call", "updateLibraryIndex") > LibFailures(k)

\* C6: once updateIndexes has run to its end, "index updated" was fired (once)
\* if and only if both the package and the library sync succeeded within
\* their attempts.
C6_IndexUpdatedIffBothSucceeded ==
    \A k \in Slots : LibLoopLeft(k) =>
        /\ Count(call[k].hist, "fire", "indexUpdated") <= 1
        /\ Count(call[k].hist, "fire", "indexUpdated") = 1
              <=> (PkgSucceeded(k) /\ LibSucceeded(k))

\* ---- C7 -------------------------------------------------------------------

\* the attempt numbers of the error lines of one kind, in the order appended
ErrAttempts(h, kind) ==
    LET e == SelectSeq(h, LAMBDA x : x.op = "append" /\ x.kind = kind)
    IN [j \in DOMAIN e |-> e[j].n]

\* C7: each retry loop issues at most 10 attempts; when k < 10 attempts
\* failed and the loop was left, exactly k + 1 attempts were issued (the
\* successful one is the last), the sink holds exactly k error lines of that
\* kind, for attempts 0..k-1 in order, and no terminal line of that kind.
C7_RetryStopsAtFirstSuccess ==
    \A k \in Slots :
        LET h == call[k].hist IN
        /\ Count(h, "call", "updateIndex") <= PkgAttempts
        /\ Count(h, "call", "updateLibraryIndex") <= LibAttempts
        /\ ErrAttempts(h, "errPkg") = [j \in 1..PkgFailures(k) |-> j - 1]
        /\ ErrAttempts(h, "errLib") = [j \in 1..LibFailures(k) |-> j - 1]
        /\ (PkgLoopLeft(k) /\ PkgFailures(k) < PkgAttempts) =>
              /\ Count(h, "call", "updateIndex") = PkgFailures(k) + 1
              /\ Count(h, "append", "unablePkg") = 0
        /\ (LibLoopLeft(k) /\ LibFailures(k) < LibAttempts) =>
              /\ Count(h, "call", "updateLibraryIndex") = LibFailures(k) + 1
              /\ Count(h, "append", "unableLib") = 0

\* the package index succeeded at its 10th attempt, the library index at its 3rd
C7_Witness ==
    \E k \in Slots :
        /\ Returned(k) /\ LibLoopLeft(k)
        /\ PkgFailures(k) = PkgAttempts - 1 /\ LibFailures(k) = 2

\* ---- C8 -------------------------------------------------------------------

\* C8: when all 10 attempts of an index kind failed, the sink holds 10 error
\* lines of that kind followed by one terminal "Was unable to update" line of
\* that kind, and the kind's success flag is false.
C8_ExhaustedRetriesReported ==
    \A k \in Slots :
        LET h == call[k].hist IN
        /\ (PkgLoopLeft(k) /\ PkgFailures(k) = PkgAttempts) =>
              /\ Count(h, "append", "unablePkg") = 1
              /\ \A e \in Idx(h, "append", "errPkg"), t \in Idx(h, "append", "unablePkg") : e < t
              /\ ~call[k].indexUpdateSucceeded
        /\ (LibLoopLeft(k) /\ LibFailures(k) = LibAttempts) =>
              /\ Count(h, "append", "unableLib") = 1
              /\ \A e \in Idx(h, "append", "errLib"), t \in Idx(h, "append", "unableLib") : e < t
              /\ ~call[k].libIndexUpdateSucceeded

\* ---- C9 -------------------------------------------------------------------

\* C9: at most one reconcileClient invocation is suspended at any time, and
\* the connection an index update was issued on is not closed while that
\* update is awaited.
C9_ReconciliationsNeverOverlap ==
    /\ Cardinality(InFlight) <= 1
    /\ \A k \in Slots :
          call[k].pc \in {"pkg", "lib"} => conns[call[k].client].closes = 0

\* ---- C10 ------------------------------------------------------------------

\* C10: at most one connection is open; the current Session's connection, if
\* there is one, is that connection; and every open connection is the current
\* Session's or the one a suspended reconciliation is creating a Session on.
C10_AtMostOneLiveConnection ==
    /\ Cardinality(Live) <= 1
    /\ _client # NoClient => Live = {_client.client}
    /\ \A c \in Live :
          \/ _client.client = c
          \/ \E k \in InFlight : call[k].client = c

\* ---- C11 ------------------------------------------------------------------

C11_Applies(k) == PkgLoopLeft(k) /\ PkgFailures(k) = PkgAttempts

\* C11: when all 10 package attempts failed, the library index is still
\* synced, with its own counter from attempt 0 and up to 10 attempts (the
\* library loop is left without success only after 10 failed attempts), the
\* reconciliation is not rejected, and once it has returned it fired
\* "client ready".
C11_LibrarySyncKeepsItsBudget ==
    \A k \in Slots : C11_Applies(k) =>
        LET h == call[k].hist IN
        /\ call[k].pc \in {"lib", "ret", "fire", "done"}
        /\ Count(h, "call", "updateLibraryIndex") >= 1
        /\ ErrAttempts(h, "errLib") = [j \in 1..LibFailures(k) |-> j - 1]
        /\ call[k].pc = "lib" =>
              /\ LibFailures(k) < LibAttempts
              /\ Count(h, "call", "updateLibraryIndex") = LibFailures(k) + 1
        /\ (LibLoopLeft(k) /\ ~LibSucceeded(k)) => LibFailures(k) = LibAttempts
        /\ Returned(k) => Count(h, "fire", "clientReady") = 1

\* both index kinds failed all 10 attempts and the reconciliation returned
C11_Witness ==
    \E k \in Slots :
        C11_Applies(k) /\ Returned(k) /\ LibFailures(k) = LibAttempts


\* ---- C14 ------------------------------------------------------------------

\* C14: a stream error of an index update never rejects reconcileClient: an
\* invocation is rejected only by its handshake, before any index update was
\* issued; an invocation that met index stream errors goes on (each error is
\* one sink line) and is never in the rejected state, also after all 10
\* attempts of both kinds failed.
C14_SyncErrorsStayInTheSink ==
    \A k \in Slots :
        LET h == call[k].hist IN
        /\ (call[k].pc = "failed" \/ call[k].failure # "none") =>
              /\ call[k].pc = "failed"
              /\ call[k].path = "create"
              /\ call[k].failure \in {"StreamError", "TypeError", "InitializationError"}
              /\ call[k].ending # "none"
              /\ Count(h, "call", "updateIndex") = 0
              /\ Count(h, "call", "updateLibraryIndex") = 0
              /\ Ops(h, "append") = {}
        /\ Count(h, "call", "updateIndex") > 0 =>
              /\ call[k].pc \in {"pkg", "lib", "ret", "fire", "done"}
              /\ Count(h, "call", "updateIndex") - PkgFailures(k)
                    = IF call[k].pc = "pkg" \/ PkgSucceeded(k) THEN 1 ELSE 0
              /\ Count(h, "call", "updateLibraryIndex") - LibFailures(k)
                    = IF call[k].pc = "lib" \/ LibSucceeded(k) THEN 1 ELSE 0

\* a reconciliation of an unchanged endpoint returned after all 10 attempts
\* of both index kinds had failed
C14_Witness ==
    \E k \in Slots :
        /\ Returned(k) /\ call[k].path = "reuse" /\ call[k].failure = "none"
        /\ PkgFailures(k) = PkgAttempts /\ LibFailures(k) = LibAttempts

\* ---- C15 ------------------------------------------------------------------

\* C15: when the init stream has ended, createClient fails with the
\* initialization error ("Could not retrieve instance ...") if and only if no
\* message of the stream carried an instance.
C15_InitErrorIffNoInstanceDelivered ==
    \A k \in Slots : call[k].ending = "end" =>
        (call[k].failure = "InitializationError" <=> ~call[k].sawInstance)

\* ---- C18 ------------------------------------------------------------------

\* the invocation has just fired "index updated": it is the last thing it did
JustFiredIndexUpdated(k) ==
    /\ call[k].hist # <<>>
    /\ call[k].hist[Len(call[k].hist)] = Ev("fire", "indexUpdated", 0)

\* C18: at the moment "index updated" is fired, the manager's current Session
\* is the Session (client and instance) the index updates were issued on.
C18_IndexUpdatedOnCurrentSession ==
    \A k \in Slots : JustFiredIndexUpdated(k) =>
        /\ _client # NoClient
        /\ _client = Session(call[k].client, call[k].instance)

\* ---- C20 ------------------------------------------------------------------

\* C20: an invocation fires "index updated" at most once, every time before
\* "client ready", and runs updateIndexes at most once: the package attempts
\* it issued are one run of the loop (attempts 0, 1, ... in order, at most 10).
C20_IndexUpdatedOnceBeforeClientReady ==
    \A k \in Slots :
        LET h == call[k].hist IN
        /\ Count(h, "fire", "indexUpdated") <= 1
        /\ Count(h, "fire", "clientReady") <= 1
        /\ \A u \in Idx(h, "fire", "indexUpdated"), r \in Idx(h, "fire", "clientReady") :
              u < r
        /\ Count(h, "call", "updateIndex") <= PkgAttempts
        /\ Count(h, "call", "updateLibraryIndex") <= LibAttempts
        /\ ErrAttempts(h, "errPkg") = [j \in 1..PkgFailures(k) |-> j - 1]
        /\ \A a \in Idx(h, "call", "updateIndex"), b \in Idx(h, "call", "updateLibraryIndex") :
              a < b
        /\ Count(h, "fire", "indexUpdated") = 1 =>
              /\ Count(h, "call", "updateIndex") >= 1
              /\ Count(h, "call", "updateLibraryIndex") >= 1
              /\ \A c \in Ops(h, "call"), u \in Idx(h, "fire", "indexUpdated") : c < u

\* both notifications were fired on the create path, after a failed attempt
C20_Witness ==
    \E k \in Slots :
        /\ Returned(k) /\ call[k].path = "create" /\ LibFailures(k) = 1
        /\ Count(call[k].hist, "fire", "indexUpdated") = 1
        /\ Count(call[k].hist, "fire", "clientReady") = 1

\* ---- C19 ------------------------------------------------------------------

\* the invocation has ended: it returned or was rejected
Ended(k) == call[k].pc \in {"done", "failed"}

\* C19: an invocation opens at most one connection, issues at most one init
\* request and at most 10 index updates of each kind, and when it has ended it
\* has fired "client ready" or was rejected by its handshake.
C19_EndsReadyOrRejectedWithinBudget ==
    \A k \in Slots :
        LET h == call[k].hist IN
        /\ Count(h, "open", "conn") <= 1
        /\ Count(h, "call", "init") <= 1
        /\ Count(h, "call", "updateIndex") <= PkgAttempts
        /\ Count(h, "call", "updateLibraryIndex") <= LibAttempts
        /\ Ended(k) =>
              \/ Count(h, "fire", "clientReady") = 1
              \/ call[k].pc = "failed" /\ call[k].failure # "none"


\* every stream eventually ends or errors, and a continuation that is ready
\* to run is run
SpecSeqFair ==
    /\ SpecSeq
    /\ \A k \in Slots :
          /\ WF_vars(\E stream \in InitStreams, ending \in {"end", "error"} :
                        initSettled(k, stream, ending))
          /\ WF_vars(\E ok \in BOOLEAN : updateIndexSettled(k, ok))
          /\ WF_vars(\E ok \in BOOLEAN : updateLibraryIndexSettled(k, ok))
          /\ WF_vars(superAssign(k))
          /\ WF_vars(fireClientReady(k))

\* the termination part of C19 taken alone: under SpecSeqFair every suspended
\* invocation ends
C19_Terminates == \A k \in Slots : Suspended(k) ~> Ended(k)


\* ---- progress events in the history ---------------------------------------

PkgCompletionKinds == {"downloadPkg", "completedPkg", "updatedPkg"}

LibCompletionKinds == {"downloadLib", "completedLib", "updatedLib"}

GenericKinds == {"updatedPkg", "updatedLib"}

IsCompletionLine(e) ==
    e.op = "append" /\ e.kind \in PkgCompletionKinds \cup LibCompletionKinds

IsCompleted(e) == e.op = "data" /\ e.kind = "completed"

\* a tracking cycle begins with the stream (its call) and after a completion
IsBoundary(e) == e.op = "call" \/ IsCompleted(e)

\* the last tracking boundary among the first upto entries of h (0: none)
LastBoundary(h, upto) ==
    LET b == {i \in 1..upto : IsBoundary(h[i])}
    IN IF b = {} THEN 0 ELSE CHOOSE i \in b : \A j \in b : j <= i

\* the first file name data events lo..hi of h carry (NoFile: none does)
FirstNamedIn(h, lo, hi) ==
    LET named == {i \in lo..hi : h[i].op = "data" /\ h[i].n # NoFile}
    IN IF named = {} THEN NoFile
       ELSE h[CHOOSE i \in named : \A j \in named : i <= j].n

\* the file name on record when the completed event at entry j of h arrives:
\* the first one carried since the previous completion or the stream's start
TrackedAt(h, j) == FirstNamedIn(h, LastBoundary(h, j - 1) + 1, j)

\* ---- C12 ------------------------------------------------------------------

\* C12: in every sync attempt each completed progress event appends exactly
\* one completion line and no other event appends one, so the completion
\* lines are as many as the completed events; the line has the filename
\* phrasing when a file name was carried since the previous completion (or the
\* stream's start) and the generic phrasing otherwise.
C12_OneCompletionLinePerCompletedEvent ==
    \A k \in Slots :
        LET h == call[k].hist
            lines == {j \in DOMAIN h : IsCompletionLine(h[j])}
            completed == {j \in DOMAIN h : IsCompleted(h[j])}
        IN /\ Cardinality(lines) = Cardinality(completed)
           /\ \A j \in completed : j + 1 \in lines
           /\ \A j \in lines :
                /\ j - 1 \in completed
                /\ h[j].kind \in GenericKinds <=> TrackedAt(h, j - 1) = NoFile

\* an event without the completion flag carried a file name, and the
\* completed event after it, which carried none, appended a filename line
C12_Witness ==
    \E k \in Slots :
        LET h == call[k].hist
        IN \E j \in DOMAIN h :
              /\ j + 2 \in DOMAIN h
              /\ h[j].op = "data" /\ h[j].kind = "progress" /\ h[j].n # NoFile
              /\ IsCompleted(h[j + 1]) /\ h[j + 1].n = NoFile
              /\ IsCompletionLine(h[j + 2]) /\ h[j + 2].kind \notin GenericKinds


\* ---- C13 ------------------------------------------------------------------

\* what the package / the library synchronization leaves in the history:
\* its stream requests and its sink lines
IsPkgEntry(e) ==
    \/ e.op = "call" /\ e.kind = "updateIndex"
    \/ e.op = "append" /\ e.kind \in PkgCompletionKinds \cup {"errPkg", "unablePkg"}

IsLibEntry(e) ==
    \/ e.op = "call" /\ e.kind = "updateLibraryIndex"
    \/ e.op = "append" /\ e.kind \in LibCompletionKinds \cup {"errLib", "unableLib"}

\* the stream request that entry j of h follows most closely (0: none)
StreamOf(h, j) ==
    LET b == {i \in 1..j : h[i].op = "call"}
    IN IF b = {} THEN 0 ELSE CHOOSE i \in b : \A m \in b : m <= i

\* C13: in one run of updateIndexes every package-index stream request and
\* sink line precedes every library-index one, and the library stream is
\* opened only after a package stream was; within one kind the lines follow
\* what was observed: a completion line belongs to the stream that is open,
\* right after its event, and the error lines count the attempts upwards.
C13_PackageLinesBeforeLibraryLines ==
    \A k \in Slots :
        LET h == call[k].hist
        IN /\ \A i, j \in DOMAIN h : IsPkgEntry(h[i]) /\ IsLibEntry(h[j]) => i < j
           /\ \A j \in DOMAIN h :
                IsLibEntry(h[j]) => \E i \in 1..j : h[i] = Ev("call", "updateIndex", h[i].n)
           /\ \A j \in DOMAIN h :
                IsCompletionLine(h[j]) =>
                    /\ IsCompleted(h[j - 1])
                    /\ StreamOf(h, j) # 0
                    /\ h[StreamOf(h, j)].kind =
                         (IF h[j].kind \in PkgCompletionKinds
                          THEN "updateIndex" ELSE "updateLibraryIndex")
           /\ \A kind \in {"errPkg", "errLib"} :
                LET e == ErrAttempts(h, kind)
                IN \A j \in DOMAIN e : e[j] = j - 1

\* both streams delivered a completed event and the package stream failed once
C13_Witness ==
    \E k \in Slots :
        LET h == call[k].hist
        IN /\ \E j \in DOMAIN h : h[j].op = "append" /\ h[j].kind \in PkgCompletionKinds
           /\ \E j \in DOMAIN h : h[j].op = "append" /\ h[j].kind \in LibCompletionKinds
           /\ \E j \in DOMAIN h : h[j] = Ev("append", "errPkg", 0)

\* ---- C16 ------------------------------------------------------------------

\* the sink lines an invocation appended, in order
SinkLines(h) == SelectSeq(h, LAMBDA e : e.op = "append")

\* the invocation returned and none of its sync attempts failed
CleanReturn(c) ==
    /\ c.pc = "done"
    /\ \A j \in DOMAIN c.hist :
          ~(c.hist[j].op = "append" /\ c.hist[j].kind \in {"errPkg", "errLib"})

\* C16: when two successive reconciliations of the same endpoint both return
\* without a failure, the daemon streaming the same events both times, the
\* second appends the same sink lines as the first; and every sync attempt
\* starts with no tracked file name, whatever the attempt, the index kind or
\* the reconciliation before it tracked.
C16_SecondReconcileAppendsTheSameLines ==
    \A k \in Slots :
        LET h == call[k].hist
        IN /\ ( /\ CleanReturn(call[k]) /\ CleanReturn(prev[k])
                /\ call[k].port = prev[k].port )
              => SinkLines(h) = SinkLines(prev[k].hist)
           /\ ( /\ call[k].pc \in {"pkg", "lib"}
                /\ h[Len(h)].op = "call" )
              => call[k].file = NoFile

\* the second of two clean reconciliations of one endpoint has returned; in
\* it the package stream ended with a file name tracked and the library
\* stream's completed event, which carried none, appended the generic line
C16_Witness ==
    \E k \in Slots :
        LET h == call[k].hist
        IN /\ CleanReturn(call[k]) /\ CleanReturn(prev[k])
           /\ call[k].port = prev[k].port
           /\ call[k].path = "reuse"
           /\ \E j \in DOMAIN h :
                 /\ j + 3 \in DOMAIN h
                 /\ h[j].op = "data" /\ h[j].kind = "progress" /\ h[j].n # NoFile
                 /\ h[j + 1].op = "call" /\ h[j + 1].kind = "updateLibraryIndex"
                 /\ IsCompleted(h[j + 2]) /\ h[j + 2].n = NoFile
                 /\ h[j + 3] = Ev("append", "updatedLib", 0)

\* ---- C17 ------------------------------------------------------------------

\* the file name on record after the whole of h, by the events h logs
TrackedAfter(h) == FirstNamedIn(h, LastBoundary(h, Len(h)) + 1, Len(h))

\* C17: while a sync attempt runs, the tracked file name is the first one an
\* event carried since the last completion or the stream's start (a later,
\* different name does not replace it, a completion clears it), and every
\* filename line names the file that was tracked when its event arrived.
C17_FirstFileNameIsTracked ==
    \A k \in Slots :
        LET h == call[k].hist
        IN /\ call[k].pc \in {"pkg", "lib"} => call[k].file = TrackedAfter(h)
           /\ \A j \in DOMAIN h :
                IsCompletionLine(h[j]) /\ h[j].kind \notin GenericKinds
                    => h[j].n = TrackedAt(h, j - 1)

\* a file name was tracked, the completed event carried a different one, and
\* the line named the first
C17_Witness ==
    \E k \in Slots :
        LET h == call[k].hist
        IN \E j \in DOMAIN h :
              /\ j + 2 \in DOMAIN h
              /\ h[j].op = "data" /\ h[j].kind = "progress" /\ h[j].n # NoFile
              /\ IsCompleted(h[j + 1]) /\ h[j + 1].n \notin {NoFile, h[j].n}
              /\ IsCompletionLine(h[j + 2]) /\ h[j + 2].n = h[j].n

====
